---- MODULE Spec2Model ----
(***************************************************************************)
(* A model of the 1password.rs crate (src/lib.rs): the Op handle, the      *)
(* OpSession, the subprocess calls `op --version` and `op get item`, the   *)
(* session lookups in the process environment, and the OpItem JSON schema  *)
(* with its untagged details enum and the password() accessor.             *)
(*                                                                         *)
(* Byte strings the code inspects (environment names and values, captured  *)
(* stdout/stderr) are sequences of one-character strings, so starts_with,  *)
(* format!, trim and the UTF-8 checks are computed.  Opaque strings (uuids,*)
(* JSON member values) are plain strings.                                  *)
(***************************************************************************)
EXTENDS Integers, Sequences, FiniteSets, TLC

VARIABLES env, ops, sessions, made, pc, call, child, outcome, spawns,
          result, last, item, wire

vars == <<env, ops, sessions, made, pc, call, child, outcome, spawns,
          result, last, item, wire>>

(***************************************************************************)
(* Bounds of the model.                                                    *)
(***************************************************************************)
MaxEnv == 2
MaxOps == 2
MaxSessions == 2
MaxFields == 2

(***************************************************************************)
(* Results: Result<T, Error>, plus a panic (the thread unwinds, no value   *)
(* reaches the caller).                                                    *)
(***************************************************************************)
Ok(v) == [kind |-> "Ok", val |-> v]

Err(e) == [kind |-> "Err", err |-> e]

Panic == [kind |-> "Panic"]

NoResult == [kind |-> "None"]

Some(v) == [some |-> TRUE, v |-> v]

None == [some |-> FALSE]

(***************************************************************************)
(* Byte strings.  BadByte stands for a byte sequence that is not valid     *)
(* UTF-8 (not valid unicode for an OsString).                              *)
(***************************************************************************)
BadByte == "\\xFF"

IsUtf8(b) == \A i \in 1..Len(b) : b[i] # BadByte

\* String::from_utf8: Ok(text) or FromUtf8Error (foreign link StdErrUtf8).
FromUtf8(b) == IF IsUtf8(b) THEN Ok(b) ELSE Err([error |-> "StdErrUtf8"])

\* str::starts_with
StartsWith(s, p) == Len(s) >= Len(p) /\ SubSeq(s, 1, Len(p)) = p

Whitespace == {" ", "\n", "\t"}

RECURSIVE TrimStart(_)
TrimStart(s) ==
    IF s # <<>> /\ Head(s) \in Whitespace THEN TrimStart(Tail(s)) ELSE s

RECURSIVE TrimEnd(_)
TrimEnd(s) ==
    IF s # <<>> /\ s[Len(s)] \in Whitespace
    THEN TrimEnd(SubSeq(s, 1, Len(s) - 1)) ELSE s

\* str::trim
Trim(s) == TrimEnd(TrimStart(s))

(***************************************************************************)
(* The process environment: a sequence of entries with distinct keys, in   *)
(* the order env::vars() enumerates them.                                  *)
(***************************************************************************)
SessionPrefix == <<"O", "P", "_", "S", "E", "S", "S", "I", "O", "N", "_">>

\* format!("OP_SESSION_{}", subdomain)
SessionVarName(subdomain) == SessionPrefix \o subdomain

Subdomains == {<<"a">>, <<"a", "b">>, <<"b">>}

EnvNames ==
    { SessionVarName(<<"a">>),
      SessionVarName(<<"a", "b">>),
      <<"O", "P", "_", "S", "E", "S", "S", "I", "O", "N">> }

EnvValues == { <<"t", "1">>, <<"t", "2">>, <<"t", BadByte>> }

Tokens == { <<"t", "1">>, <<"t", "3">> }

Paths == { "/usr/bin/op", "/opt/op" }

Range(s) == { s[i] : i \in 1..Len(s) }

EnvKeys(e) == { e[i].key : i \in 1..Len(e) }

RECURSIVE RemoveKey(_, _)
RemoveKey(e, k) ==
    IF e = <<>> THEN <<>>
    ELSE IF Head(e).key = k THEN RemoveKey(Tail(e), k)
    ELSE <<Head(e)>> \o RemoveKey(Tail(e), k)

\* env::set_var as done by the embedding process: replace in place or append.
SetKey(e, k, v) ==
    IF k \in EnvKeys(e)
    THEN [i \in 1..Len(e) |-> IF e[i].key = k THEN [key |-> k, val |-> v] ELSE e[i]]
    ELSE Append(e, [key |-> k, val |-> v])

RECURSIVE FilterPrefixed(_)
\* .filter(|(key, _)| key.starts_with("OP_SESSION_")).collect()
FilterPrefixed(e) ==
    IF e = <<>> THEN <<>>
    ELSE IF StartsWith(Head(e).key, SessionPrefix)
         THEN <<Head(e)>> \o FilterPrefixed(Tail(e))
         ELSE FilterPrefixed(Tail(e))

\* env::vars(): the iterator panics on any key or value that is not valid
\* unicode; otherwise it yields every (key, value) pair.
EnvVarsPanics(e) ==
    \E i \in 1..Len(e) : ~IsUtf8(e[i].key) \/ ~IsUtf8(e[i].val)

\* As EnvVar, but the variable is found by prefix instead of by name.
EnvVarByPrefix(e, name) ==
    IF \A i \in 1..Len(e) : ~StartsWith(e[i].key, name)
    THEN Err([error |-> "NotPresent"])
    ELSE LET v == (CHOOSE i \in 1..Len(e) : StartsWith(e[i].key, name)) IN
         IF IsUtf8(e[v].val) THEN Ok(e[v].val)
         ELSE Err([error |-> "NotUnicode"])

\* env::var(name): NotPresent, NotUnicode, or the value.
EnvVar(e, name) ==
    IF name \notin EnvKeys(e) THEN Err([error |-> "NotPresent"])
    ELSE LET v == (CHOOSE i \in 1..Len(e) : e[i].key = name) IN
         IF IsUtf8(e[v].val) THEN Ok(e[v].val)
         ELSE Err([error |-> "NotUnicode"])

(***************************************************************************)
(* Op and OpSession values.                                                *)
(***************************************************************************)
\* Op::new
OpNew(command) == [command |-> command]

\* OpSession { config: self.clone(), session: ... }
MkSession(op, session) == [config |-> op, session |-> session]

\* Op::env_account_session
EnvAccountSessionResult(op, e, subdomain) ==
    LET r == EnvVar(e, SessionVarName(subdomain)) IN
    IF r.kind = "Err"
    THEN IF r.err.error = "NotPresent"
         THEN Err([error |-> "MissingSessionVariable"])
         ELSE Err([error |-> "SessionVar"])
    ELSE Ok(MkSession(op, r.val))

\* Op::env_session
EnvSessionResult(op, e) ==
    IF EnvVarsPanics(e) THEN Panic
    ELSE LET matched == FilterPrefixed(e) IN
         IF Len(matched) = 0 THEN Err([error |-> "MissingSessionVariable"])
         ELSE IF Len(matched) = 1 THEN Ok(MkSession(op, matched[1].val))
         ELSE Err([error |-> "MultipleSessionVariables",
                   domains |-> [i \in 1..Len(matched) |-> matched[i].key]])

(***************************************************************************)
(* JSON documents as serde_json hands them to the derived Deserialize      *)
(* implementations.  Absent marks a member that is not in an object.       *)
(***************************************************************************)
Absent == [j |-> "absent"]

JNull == [j |-> "null"]

JNum(n) == [j |-> "number", n |-> n]

JStr(s) == [j |-> "string", s |-> s]

JArr(a) == [j |-> "array", a |-> a]

JObj(m) == [j |-> "object", m |-> m]

\* The member `k` of a JSON value, Absent when there is none.
Member(v, k) ==
    IF v.j = "object" /\ k \in DOMAIN v.m THEN v.m[k] ELSE Absent

\* An object holding exactly the members of `m` that are not Absent.
ObjOf(m) == JObj([k \in {n \in DOMAIN m : m[n] # Absent} |-> m[k]])

\* A required String member: missing field or wrong type is an error.
DecString(v) ==
    IF v.j = "string" THEN Ok(v.s) ELSE Err([error |-> "JsonParse"])

\* An Option<String> member: absent or null is None.
DecOptString(v) ==
    IF v.j \in {"absent", "null"} THEN Ok(None)
    ELSE IF v.j = "string" THEN Ok(Some(v.s))
    ELSE Err([error |-> "JsonParse"])

\* #[derive(Deserialize)] struct OpItemField
DecField(v) ==
    LET d == DecOptString(Member(v, "designation"))
        n == DecString(Member(v, "name"))
        t == DecString(Member(v, "type"))
        x == DecString(Member(v, "value")) IN
    IF v.j = "object" /\ d.kind = "Ok" /\ n.kind = "Ok" /\ t.kind = "Ok"
       /\ x.kind = "Ok"
    THEN Ok([designation |-> d.val, name |-> n.val,
             field_type |-> t.val, value |-> x.val])
    ELSE Err([error |-> "JsonParse"])

\* Vec<OpItemField>
DecFields(v) ==
    IF v.j = "array" /\ \A i \in 1..Len(v.a) : DecField(v.a[i]).kind = "Ok"
    THEN Ok([i \in 1..Len(v.a) |-> DecField(v.a[i]).val])
    ELSE Err([error |-> "JsonParse"])

\* Variant OpItemDetails::Password { password: String }
DecPasswordVariant(v) ==
    LET p == DecString(Member(v, "password")) IN
    IF v.j = "object" /\ p.kind = "Ok"
    THEN Ok([shape |-> "Password", password |-> p.val])
    ELSE Err([error |-> "JsonParse"])

\* Variant OpItemDetails::Login { fields: Vec<OpItemField> }
DecLoginVariant(v) ==
    LET f == DecFields(Member(v, "fields")) IN
    IF v.j = "object" /\ f.kind = "Ok"
    THEN Ok([shape |-> "Login", fields |-> f.val])
    ELSE Err([error |-> "JsonParse"])

\* As DecDetails, with the variants tried in the other order.
DecDetailsLoginFirst(v) ==
    IF DecLoginVariant(v).kind = "Ok" THEN DecLoginVariant(v)
    ELSE IF DecPasswordVariant(v).kind = "Ok" THEN DecPasswordVariant(v)
    ELSE Err([error |-> "JsonParse"])

\* #[serde(untagged)] enum OpItemDetails: the variants are tried in
\* declaration order and the first that deserializes is taken.
DecDetails(v) ==
    IF DecPasswordVariant(v).kind = "Ok" THEN DecPasswordVariant(v)
    ELSE IF DecLoginVariant(v).kind = "Ok" THEN DecLoginVariant(v)
    ELSE Err([error |-> "JsonParse"])

\* #[derive(Deserialize)] struct OpItemOverview
DecOverview(v) ==
    LET a == DecString(Member(v, "ainfo"))
        t == DecString(Member(v, "title")) IN
    IF v.j = "object" /\ a.kind = "Ok" /\ t.kind = "Ok"
    THEN Ok([ainfo |-> a.val, title |-> t.val])
    ELSE Err([error |-> "JsonParse"])

\* #[derive(Deserialize)] #[serde(rename_all = "camelCase")] struct OpItem
DecItem(v) ==
    LET u == DecString(Member(v, "uuid"))
        w == DecString(Member(v, "vaultUuid"))
        c == DecString(Member(v, "changerUuid"))
        o == DecOverview(Member(v, "overview"))
        d == DecDetails(Member(v, "details")) IN
    IF v.j = "object" /\ u.kind = "Ok" /\ w.kind = "Ok" /\ c.kind = "Ok"
       /\ o.kind = "Ok" /\ d.kind = "Ok"
    THEN Ok([uuid |-> u.val, vault_uuid |-> w.val, changer_uuid |-> c.val,
             overview |-> o.val, details |-> d.val])
    ELSE Err([error |-> "JsonParse"])

\* As SerField, with a designation of None written as an empty string.
SerFieldEmptyString(f) ==
    JObj([designation |-> IF f.designation.some THEN JStr(f.designation.v)
                          ELSE JStr(""),
          name |-> JStr(f.name),
          type |-> JStr(f.field_type),
          value |-> JStr(f.value)])

\* #[derive(Serialize)] struct OpItemField: an Option that is None is
\* written as null.
SerField(f) ==
    JObj([designation |-> IF f.designation.some THEN JStr(f.designation.v)
                          ELSE JNull,
          name |-> JStr(f.name),
          type |-> JStr(f.field_type),
          value |-> JStr(f.value)])

\* #[derive(Serialize)] #[serde(untagged)] enum OpItemDetails
SerDetails(d) ==
    IF d.shape = "Password" THEN JObj([password |-> JStr(d.password)])
    ELSE JObj([fields |-> JArr([i \in 1..Len(d.fields) |-> SerField(d.fields[i])])])

\* #[derive(Serialize)] struct OpItemOverview
SerOverview(o) == JObj([ainfo |-> JStr(o.ainfo), title |-> JStr(o.title)])

\* #[derive(Serialize)] #[serde(rename_all = "camelCase")] struct OpItem
SerItem(i) ==
    JObj([uuid |-> JStr(i.uuid),
          vaultUuid |-> JStr(i.vault_uuid),
          changerUuid |-> JStr(i.changer_uuid),
          overview |-> SerOverview(i.overview),
          details |-> SerDetails(i.details)])

RECURSIVE FindPasswordLast(_)
\* As FindPassword, but the last match wins.
FindPasswordLast(fields) ==
    IF fields = <<>> THEN None
    ELSE IF FindPasswordLast(Tail(fields)).some
         THEN FindPasswordLast(Tail(fields))
         ELSE IF Head(fields).designation = Some("password")
              THEN Some(Head(fields).value)
              ELSE None

RECURSIVE FindPassword(_)
\* fields.iter().find(|x| x.designation == Some("password")).map(|x| x.value.clone())
FindPassword(fields) ==
    IF fields = <<>> THEN None
    ELSE IF Head(fields).designation = Some("password")
         THEN Some(Head(fields).value)
         ELSE FindPassword(Tail(fields))

\* OpItem::password
password(i) ==
    IF i.details.shape = "Password" THEN Some(i.details.password)
    ELSE FindPassword(i.details.fields)

(***************************************************************************)
(* Subprocess outcomes: what Command::output() hands back.                 *)
(***************************************************************************)
\* ExitStatus: exited with a code, or terminated by a signal.
Exited(c) == [exited |-> TRUE, code |-> c]

Signaled(sig) == [exited |-> FALSE, code |-> sig]

\* ExitStatus::success
Success(st) == st.exited /\ st.code = 0

\* ExitStatus::code
Code(st) == IF st.exited THEN Some(st.code) ELSE None

SyntaxError == [j |-> "syntax_error"]

\* The item of the spec's scenario.
PasswordItem ==
    [uuid |-> "u1", vault_uuid |-> "v1", changer_uuid |-> "c1",
     overview |-> [ainfo |-> "a", title |-> "t"],
     details |-> [shape |-> "Password", password |-> "secret"]]

\* Captured stdout: its bytes, and the document serde_json reads from them.
Stdouts ==
    { [bytes |-> <<"{password item}">>, json |-> SerItem(PasswordItem)],
      [bytes |-> <<" ", "1", ".", "2", "\n">>, json |-> JNum(1)],
      [bytes |-> <<BadByte>>, json |-> SyntaxError] }

Stderrs == { <<"not found">>, <<BadByte>> }

Statuses == { Exited(0), Exited(1), Exited(2), Signaled(1) }

\* Err(io::Error) from spawning, or the captured Output.
Outcomes ==
    { [io |-> TRUE] }
    \cup { [io |-> FALSE, status |-> st, stdout |-> so, stderr |-> se] :
             st \in Statuses, so \in Stdouts, se \in Stderrs }

Uuids == { "u1", "missing" }

\* serde_json::from_slice::<OpItem>(&output.stdout)
FromSlice(stdout) == DecItem(stdout.json)

\* Command::new(&self.command).arg("--version")
VersionCommandLine(op) == [command |-> op.command, args |-> <<"--version">>]

\* As GetItemCommandLine, but running whatever `op` the search path finds
\* instead of the path of the session's handle.
GetItemCommandLineBareOp(s, uuid) ==
    [command |-> "op",
     args |-> <<"get", "item", "--session", s.session, uuid>>]

\* Command::new(&self.config.command).args(&["get", "item", "--session"])
\*     .arg(&self.session).arg(&uuid)
GetItemCommandLine(s, uuid) ==
    [command |-> s.config.command,
     args |-> <<"get", "item", "--session", s.session, uuid>>]

\* As VersionResult, with exit code 0 as the success status.
VersionResultZero(o) ==
    IF o.io THEN Err([error |-> "Io"])
    ELSE IF FromUtf8(o.stdout.bytes).kind = "Err" THEN FromUtf8(o.stdout.bytes)
    ELSE IF FromUtf8(o.stderr).kind = "Err" THEN FromUtf8(o.stderr)
    ELSE IF Code(o.status) = Some(0)
         THEN Ok(Trim(FromUtf8(o.stdout.bytes).val))
         ELSE Err([error |-> "VersionCommand",
                   stderr |-> FromUtf8(o.stderr).val, status |-> o.status])

\* Op::version, from the outcome of output()
VersionResult(o) ==
    IF o.io THEN Err([error |-> "Io"])
    ELSE IF FromUtf8(o.stdout.bytes).kind = "Err" THEN FromUtf8(o.stdout.bytes)
    ELSE IF FromUtf8(o.stderr).kind = "Err" THEN FromUtf8(o.stderr)
    ELSE IF Code(o.status) = Some(1)
         THEN Ok(Trim(FromUtf8(o.stdout.bytes).val))
         ELSE Err([error |-> "VersionCommand",
                   stderr |-> FromUtf8(o.stderr).val, status |-> o.status])

\* As GetItemResult, but stdout is parsed whatever the exit status and
\* decides the result when it parses.
GetItemResultStdoutFirst(uuid, o) ==
    IF o.io THEN Err([error |-> "Io"])
    ELSE IF FromSlice(o.stdout).kind = "Ok" THEN FromSlice(o.stdout)
    ELSE IF Success(o.status) THEN FromSlice(o.stdout)
    ELSE IF FromUtf8(o.stderr).kind = "Err" THEN FromUtf8(o.stderr)
    ELSE Err([error |-> "GetCommand", uuid |-> uuid,
              stderr |-> FromUtf8(o.stderr).val, status |-> o.status])

\* As GetItemResult, but a document that does not decode is replaced by a
\* default item instead of being reported.
GetItemResultSuppressed(uuid, o) ==
    IF o.io THEN Err([error |-> "Io"])
    ELSE IF Success(o.status)
         THEN IF FromSlice(o.stdout).kind = "Ok" THEN FromSlice(o.stdout)
              ELSE Ok(PasswordItem)
    ELSE IF FromUtf8(o.stderr).kind = "Err" THEN FromUtf8(o.stderr)
    ELSE Err([error |-> "GetCommand", uuid |-> uuid,
              stderr |-> FromUtf8(o.stderr).val, status |-> o.status])

\* OpSession::get_item, from the outcome of output()
GetItemResult(uuid, o) ==
    IF o.io THEN Err([error |-> "Io"])
    ELSE IF Success(o.status) THEN FromSlice(o.stdout)
    ELSE IF FromUtf8(o.stderr).kind = "Err" THEN FromUtf8(o.stderr)
    ELSE Err([error |-> "GetCommand", uuid |-> uuid,
              stderr |-> FromUtf8(o.stderr).val, status |-> o.status])

(***************************************************************************)
(* Inputs of the item operations.                                          *)
(***************************************************************************)
BSeq(S, n) == UNION { [1..k -> S] : k \in 0..n }

Fields ==
    [designation : {None, Some("password"), Some("username")},
     name : {"n"}, field_type : {"T"}, value : {"v1", "v2"}]

DetailsValues ==
    { [shape |-> "Password", password |-> p] : p \in {"secret", ""} }
    \cup { [shape |-> "Login", fields |-> fs] : fs \in BSeq(Fields, MaxFields) }

Items ==
    { [uuid |-> "u1", vault_uuid |-> "v1", changer_uuid |-> "c1",
       overview |-> [ainfo |-> "a", title |-> "t"], details |-> d] :
          d \in DetailsValues }

FieldPayload(d, v) ==
    ObjOf([designation |-> d, name |-> JStr("n"), type |-> JStr("T"),
           value |-> v])

FieldPayloads ==
    { FieldPayload(JStr("password"), JStr("v1")),
      FieldPayload(JNull, JStr("v2")),
      FieldPayload(Absent, JStr("v1")),
      FieldPayload(JStr("username"), JNum(7)) }

DetailsPayloads ==
    { ObjOf([password |-> p, fields |-> f, notesPlain |-> x]) :
        p \in {Absent, JNull, JNum(7), JStr("secret")},
        f \in {Absent, JStr("none")}
              \cup { JArr(a) : a \in BSeq(FieldPayloads, MaxFields) },
        x \in {Absent, JStr("note")} }
    \cup { JNull, JStr("secret") }

\* A document with every other member of the item well formed.
ItemPayload(d) ==
    ObjOf([uuid |-> JStr("u1"), vaultUuid |-> JStr("v1"),
           changerUuid |-> JStr("c1"),
           overview |-> JObj([ainfo |-> JStr("a"), title |-> JStr("t")]),
           details |-> d])

ItemPayloads ==
    { ItemPayload(d) : d \in DetailsPayloads }
    \cup { ObjOf([uuid |-> JNum(7), vaultUuid |-> JStr("v1"),
                  changerUuid |-> JStr("c1"),
                  overview |-> JObj([ainfo |-> JStr("a"), title |-> JStr("t")]),
                  details |-> JObj([password |-> JStr("secret")])]),
           ObjOf([uuid |-> JStr("u1"), vaultUuid |-> JStr("v1"),
                  changerUuid |-> JStr("c1"),
                  overview |-> JObj([title |-> JStr("t")]),
                  details |-> JObj([password |-> JStr("secret")])]),
           SyntaxError }

(***************************************************************************)
(* State.                                                                  *)
(*   env       the process environment                                     *)
(*   ops       the Op handles constructed so far                           *)
(*   sessions  the OpSession values constructed so far                     *)
(*   made      for each session, the path and token it was made with       *)
(*   pc        "idle", "running" (a child was spawned and output() waits), *)
(*             "exited" (output() has the outcome), "aborted" (panic)      *)
(*   call      the operation in progress or last completed, its receiver   *)
(*             and argument                                                *)
(*   child     the command line of the spawned subprocess                  *)
(*   outcome   the outcome of the subprocess                               *)
(*   spawns    subprocesses spawned by the call                            *)
(*   result    the value returned by the last completed operation          *)
(*   last      the name of the operation that returned `result`            *)
(*   item      the OpItem the last item operation was applied to           *)
(*   wire      the JSON document last written or received                  *)
(***************************************************************************)
NoCall == [op |-> "none"]

NoChild == [command |-> "", args |-> <<>>]

NoOutcome == [io |-> FALSE, pending |-> TRUE]

NoItem == [uuid |-> ""]

NoWire == [j |-> "none"]

StartEnvs ==
    { <<[key |-> SessionVarName(<<"a">>), val |-> <<"t", "1">>],
        [key |-> <<"O", "P", "_", "S", "E", "S", "S", "I", "O", "N">>,
         val |-> <<"t", "2">>]>>,
      <<[key |-> SessionVarName(<<"a">>), val |-> <<"t", "1">>],
        [key |-> SessionVarName(<<"a", "b">>), val |-> <<"t", BadByte>>]>> }

Init ==
    /\ env \in StartEnvs
    /\ ops = <<>>
    /\ sessions = <<>>
    /\ made = <<>>
    /\ pc = "idle"
    /\ call = NoCall
    /\ child = NoChild
    /\ outcome = NoOutcome
    /\ spawns = 0
    /\ result = NoResult
    /\ last = "none"
    /\ item = NoItem
    /\ wire = NoWire

\* The record of the last subprocess call is dropped by the next operation.
Forget ==
    /\ child' = NoChild
    /\ outcome' = NoOutcome
    /\ spawns' = 0

\* The session a lookup returned is kept while there is room for it.
Keep(h, r) ==
    IF r.kind = "Ok" /\ Len(sessions) < MaxSessions
    THEN /\ sessions' = Append(sessions, r.val)
         /\ made' = Append(made, [command |-> ops[h].command,
                                  token |-> r.val.session])
    ELSE UNCHANGED <<sessions, made>>

\* The embedding process sets a variable.
SetVar(k, v) ==
    /\ pc = "idle"
    /\ k \in EnvKeys(env) \/ Len(env) < MaxEnv
    /\ env' = SetKey(env, k, v)
    /\ last' = "set_var"
    /\ call' = NoCall
    /\ result' = NoResult
    /\ Forget
    /\ UNCHANGED <<ops, sessions, made, pc, item, wire>>

\* The embedding process removes a variable.
UnsetVar(k) ==
    /\ pc = "idle"
    /\ k \in EnvKeys(env)
    /\ env' = RemoveKey(env, k)
    /\ last' = "remove_var"
    /\ call' = NoCall
    /\ result' = NoResult
    /\ Forget
    /\ UNCHANGED <<ops, sessions, made, pc, item, wire>>

\* Op::new(command)
New(command) ==
    /\ pc = "idle"
    /\ Len(ops) < MaxOps
    /\ ops' = Append(ops, OpNew(command))
    /\ call' = [op |-> "new", self |-> 0, arg |-> command]
    /\ result' = Ok(OpNew(command))
    /\ last' = "new"
    /\ Forget
    /\ UNCHANGED <<env, sessions, made, pc, item, wire>>

\* Op::which(): `found` is what which::which("op") finds on the search path.
Which(found) ==
    /\ pc = "idle"
    /\ Len(ops) < MaxOps
    /\ IF found.some
       THEN /\ ops' = Append(ops, OpNew(found.v))
            /\ result' = Ok(OpNew(found.v))
       ELSE /\ ops' = ops
            /\ result' = Err([error |-> "MissingOpCommand"])
    /\ call' = [op |-> "which", self |-> 0, arg |-> found]
    /\ last' = "which"
    /\ Forget
    /\ UNCHANGED <<env, sessions, made, pc, item, wire>>

\* Op::session(token) on handle h
Session(h, token) ==
    /\ pc = "idle"
    /\ h \in 1..Len(ops)
    /\ Len(sessions) < MaxSessions
    /\ call' = [op |-> "session", self |-> h, arg |-> token]
    /\ result' = Ok(MkSession(ops[h], token))
    /\ Keep(h, Ok(MkSession(ops[h], token)))
    /\ last' = "session"
    /\ Forget
    /\ UNCHANGED <<env, ops, pc, item, wire>>

\* Op::env_account_session(subdomain) on handle h
EnvAccountSession(h, subdomain) ==
    /\ pc = "idle"
    /\ h \in 1..Len(ops)
    /\ call' = [op |-> "env_account_session", self |-> h, arg |-> subdomain]
    /\ result' = EnvAccountSessionResult(ops[h], env, subdomain)
    /\ Keep(h, EnvAccountSessionResult(ops[h], env, subdomain))
    /\ last' = "env_account_session"
    /\ Forget
    /\ UNCHANGED <<env, ops, pc, item, wire>>

\* Op::env_session() on handle h; a panic ends the thread.
EnvSession(h) ==
    /\ pc = "idle"
    /\ h \in 1..Len(ops)
    /\ call' = [op |-> "env_session", self |-> h, arg |-> <<>>]
    /\ result' = EnvSessionResult(ops[h], env)
    /\ Keep(h, EnvSessionResult(ops[h], env))
    /\ pc' = IF EnvSessionResult(ops[h], env).kind = "Panic"
             THEN "aborted" ELSE "idle"
    /\ last' = "env_session"
    /\ Forget
    /\ UNCHANGED <<env, ops, item, wire>>

\* Op::version on handle h: Command::output() spawns the child and waits.
VersionCall(h) ==
    /\ pc = "idle"
    /\ h \in 1..Len(ops)
    /\ call' = [op |-> "version", self |-> h, arg |-> <<>>]
    /\ child' = VersionCommandLine(ops[h])
    /\ spawns' = 1
    /\ outcome' = NoOutcome
    /\ pc' = "running"
    /\ result' = NoResult
    /\ last' = "none"
    /\ UNCHANGED <<env, ops, sessions, made, item, wire>>

\* OpSession::get_item(uuid) on session s: Command::output() spawns the
\* child and waits.
GetItemCall(s, uuid) ==
    /\ pc = "idle"
    /\ s \in 1..Len(sessions)
    /\ call' = [op |-> "get_item", self |-> s, arg |-> uuid]
    /\ child' = GetItemCommandLine(sessions[s], uuid)
    /\ spawns' = 1
    /\ outcome' = NoOutcome
    /\ pc' = "running"
    /\ result' = NoResult
    /\ last' = "none"
    /\ UNCHANGED <<env, ops, sessions, made, item, wire>>

\* output() returns: the spawn failed, or the child ran and exited.
ChildExit(o) ==
    /\ pc = "running"
    /\ outcome' = o
    /\ pc' = "exited"
    /\ UNCHANGED <<env, ops, sessions, made, call, child, spawns, result,
                   last, item, wire>>

\* Op::version returns to its caller.
VersionReturn ==
    /\ pc = "exited"
    /\ call.op = "version"
    /\ result' = VersionResult(outcome)
    /\ last' = "version"
    /\ pc' = "idle"
    /\ UNCHANGED <<env, ops, sessions, made, call, child, outcome, spawns,
                   item, wire>>

\* OpSession::get_item returns to its caller.
GetItemReturn ==
    /\ pc = "exited"
    /\ call.op = "get_item"
    /\ result' = GetItemResult(call.arg, outcome)
    /\ last' = "get_item"
    /\ pc' = "idle"
    /\ UNCHANGED <<env, ops, sessions, made, call, child, outcome, spawns,
                   item, wire>>

\* OpItem::password on item i
Password(i) ==
    /\ pc = "idle"
    /\ item' = i
    /\ wire' = NoWire
    /\ result' = password(i)
    /\ last' = "password"
    /\ UNCHANGED <<env, ops, sessions, made, pc, call, child, outcome, spawns>>

\* serde_json::to_value(&item)
Serialize(i) ==
    /\ pc = "idle"
    /\ item' = i
    /\ wire' = SerItem(i)
    /\ result' = NoResult
    /\ last' = "serialize"
    /\ UNCHANGED <<env, ops, sessions, made, pc, call, child, outcome, spawns>>

\* A document for an OpItem arrives from elsewhere.
ReceiveItem(p) ==
    /\ pc = "idle"
    /\ item' = NoItem
    /\ wire' = p
    /\ result' = NoResult
    /\ last' = "receive_item"
    /\ UNCHANGED <<env, ops, sessions, made, pc, call, child, outcome, spawns>>

\* A document for an OpItemDetails arrives from elsewhere.
ReceiveDetails(p) ==
    /\ pc = "idle"
    /\ item' = NoItem
    /\ wire' = p
    /\ result' = NoResult
    /\ last' = "receive_details"
    /\ UNCHANGED <<env, ops, sessions, made, pc, call, child, outcome, spawns>>

\* serde_json::from_value::<OpItem>(document)
Deserialize ==
    /\ pc = "idle"
    /\ last \in {"serialize", "receive_item"}
    /\ result' = DecItem(wire)
    /\ last' = "deserialize"
    /\ UNCHANGED <<env, ops, sessions, made, pc, call, child, outcome, spawns,
                   item, wire>>

\* serde_json::from_value::<OpItemDetails>(document)
DeserializeDetails ==
    /\ pc = "idle"
    /\ last = "receive_details"
    /\ result' = DecDetails(wire)
    /\ last' = "deserialize_details"
    /\ UNCHANGED <<env, ops, sessions, made, pc, call, child, outcome, spawns,
                   item, wire>>

(***************************************************************************)
(* Specifications.  Spec: handles, sessions and the subprocess calls, in   *)
(* an environment fixed at start.  SpecEnv: the session lookups while the  *)
(* environment changes.  SpecItem: the item model.                         *)
(***************************************************************************)
Next ==
    \/ \E p \in Paths : New(p)
    \/ \E f \in {None} \cup {Some(p) : p \in Paths} : Which(f)
    \/ \E h \in 1..MaxOps, t \in Tokens : Session(h, t)
    \/ \E h \in 1..MaxOps, d \in Subdomains : EnvAccountSession(h, d)
    \/ \E h \in 1..MaxOps : EnvSession(h)
    \/ \E h \in 1..MaxOps : VersionCall(h)
    \/ \E s \in 1..MaxSessions, u \in Uuids : GetItemCall(s, u)
    \/ \E o \in Outcomes : ChildExit(o)
    \/ VersionReturn
    \/ GetItemReturn

Spec == Init /\ [][Next]_vars

NextEnv ==
    \/ \E k \in EnvNames, v \in EnvValues : SetVar(k, v)
    \/ \E k \in EnvNames : UnsetVar(k)
    \/ \E p \in Paths : New(p)
    \/ \E h \in 1..MaxOps, d \in Subdomains : EnvAccountSession(h, d)
    \/ \E h \in 1..MaxOps : EnvSession(h)

SpecEnv == Init /\ [][NextEnv]_vars

NextItem ==
    \/ \E i \in Items : Password(i)
    \/ \E i \in Items : Serialize(i)
    \/ \E p \in ItemPayloads : ReceiveItem(p)
    \/ \E p \in DetailsPayloads : ReceiveDetails(p)
    \/ Deserialize
    \/ DeserializeDetails

SpecItem == Init /\ [][NextItem]_vars

(***************************************************************************)
(* Properties of the subprocess calls (checked under Spec).                *)
(***************************************************************************)
AllWhitespace(s) == \A i \in 1..Len(s) : s[i] \in Whitespace

\* r is s without its leading and trailing whitespace.
IsTrimOf(r, s) ==
    /\ \E i \in 0..Len(s), j \in 0..Len(s) :
          /\ i + j <= Len(s)
          /\ r = SubSeq(s, i + 1, Len(s) - j)
          /\ AllWhitespace(SubSeq(s, 1, i))
          /\ AllWhitespace(SubSeq(s, Len(s) - j + 1, Len(s)))
    /\ r # <<>> => r[1] \notin Whitespace /\ r[Len(r)] \notin Whitespace

GetCommandError(uuid, stderr, status) ==
    Err([error |-> "GetCommand", uuid |-> uuid, stderr |-> stderr,
         status |-> status])

VersionCommandError(stderr, status) ==
    Err([error |-> "VersionCommand", stderr |-> stderr, status |-> status])

\* C1: when get_item's subprocess ran, a successful exit returns the Item
\* parsed from stdout (a JSON decode error when it does not parse) whatever
\* stderr holds, and an unsuccessful exit returns GetCommandError with the
\* uuid of the call, the stderr text and the exit status (a text-decode error
\* when stderr is not valid text) whatever stdout holds.
C1_GetItemOutcome ==
    (last = "get_item" /\ ~outcome.io) =>
        IF Success(outcome.status)
        THEN /\ outcome.stdout.json = SerItem(PasswordItem)
                  => /\ result = Ok(PasswordItem)
                     /\ password(result.val) = Some("secret")
             /\ outcome.stdout.json # SerItem(PasswordItem)
                  => result = Err([error |-> "JsonParse"])
        ELSE IF IsUtf8(outcome.stderr)
             THEN result = GetCommandError(call.arg, outcome.stderr,
                                           outcome.status)
             ELSE result = Err([error |-> "StdErrUtf8"])

\* The scenario of the spec: exit status 1, stderr "not found", uuid
\* "missing"; stdout holds a well-formed item that is never looked at.
C1_Witness ==
    /\ last = "get_item"
    /\ ~outcome.io
    /\ call.arg = "missing"
    /\ outcome.status = Exited(1)
    /\ outcome.stderr = <<"not found">>
    /\ outcome.stdout.json = SerItem(PasswordItem)
    /\ result = GetCommandError("missing", <<"not found">>, Exited(1))

\* C6 as stated: whenever version's subprocess ran, exit code 1 returns the
\* trimmed stdout and any other status fails with VersionCommandError
\* carrying stderr and the status.
C6_VersionAsStated ==
    (last = "version" /\ ~outcome.io) =>
        IF outcome.status = Exited(1)
        THEN result.kind = "Ok" /\ IsTrimOf(result.val, outcome.stdout.bytes)
        ELSE result = VersionCommandError(outcome.stderr, outcome.status)

\* C6 amended: when version's subprocess ran and both stdout and stderr are
\* valid text, exit code 1 returns the trimmed stdout and any other status
\* (exit code 0 and death by signal included) fails with VersionCommandError
\* carrying stderr and the status; when stdout or stderr is not valid text
\* the call fails with the text-decode error whatever the status.
C6_VersionOutcome ==
    (last = "version" /\ ~outcome.io) =>
        IF IsUtf8(outcome.stdout.bytes) /\ IsUtf8(outcome.stderr)
        THEN IF outcome.status = Exited(1)
             THEN /\ result.kind = "Ok"
                  /\ IsTrimOf(result.val, outcome.stdout.bytes)
             ELSE result = VersionCommandError(outcome.stderr, outcome.status)
        ELSE result = Err([error |-> "StdErrUtf8"])

C6_Witness ==
    /\ last = "version"
    /\ ~outcome.io
    /\ outcome.status = Exited(1)
    /\ outcome.stdout.bytes = <<" ", "1", ".", "2", "\n">>
    /\ result = Ok(<<"1", ".", "2">>)

\* The invocation of a call failed: the spawn failed, the exit status is not
\* the one the call takes for success, or an output the call decodes does
\* not decode.
InvocationFailed(op, o) ==
    \/ o.io
    \/ /\ op = "get_item"
       /\ ~Success(o.status) \/ o.stdout.json # SerItem(PasswordItem)
    \/ /\ op = "version"
       /\ \/ o.status # Exited(1)
          \/ ~IsUtf8(o.stdout.bytes)
          \/ ~IsUtf8(o.stderr)

\* C7: a call of get_item or version spawns exactly one subprocess, never a
\* second one, and when the invocation failed the call returns an error
\* value, never a success.
C7_NoRetryNoSuppress ==
    /\ spawns <= 1
    /\ pc \in {"running", "exited"} => spawns = 1
    /\ last \in {"get_item", "version"} =>
          /\ pc = "idle"
          /\ spawns = 1
          /\ InvocationFailed(call.op, outcome) => result.kind = "Err"

C7_Witness ==
    /\ last = "get_item"
    /\ spawns = 1
    /\ ~outcome.io
    /\ Success(outcome.status)
    /\ outcome.stdout.json = JNum(1)
    /\ result = Err([error |-> "JsonParse"])

C8_State ==
    /\ Len(made) = Len(sessions)
    /\ \A i \in 1..Len(sessions) :
          /\ sessions[i].config.command = made[i].command
          /\ sessions[i].session = made[i].token
    /\ (call.op = "get_item" /\ (pc \in {"running", "exited"} \/ last = "get_item"))
          => child = [command |-> made[call.self].command,
                      args |-> <<"get", "item", "--session",
                                 made[call.self].token, call.arg>>]

C8_Step ==
    /\ \A h \in 1..Len(ops) : h \in 1..Len(ops') /\ ops'[h] = ops[h]
    /\ \A i \in 1..Len(sessions) :
          i \in 1..Len(sessions') /\ sessions'[i] = sessions[i]

\* C8: no operation changes the path of a handle or the token of a session,
\* and every get_item on a session invokes the path of the handle the session
\* was made from with the arguments "get", "item", "--session", the token the
\* session was made with, and the uuid.
C8_Immutable == [](C8_State) /\ [][C8_Step]_vars

\* A get_item on the first of two different sessions, after the second was
\* made and after an earlier call failed or succeeded.
C8_Witness ==
    /\ last = "get_item"
    /\ Len(sessions) = 2
    /\ sessions[1] # sessions[2]
    /\ Len(ops) = 2
    /\ ops[1] # ops[2]
    /\ call.self = 1
    /\ child.command = ops[1].command
    /\ child.args = <<"get", "item", "--session", made[1].token, call.arg>>

(***************************************************************************)
(* Properties of the session lookups (checked under SpecEnv).              *)
(***************************************************************************)
PrefixedNames(e) == { k \in EnvKeys(e) : StartsWith(k, SessionPrefix) }

ValueOf(e, k) == e[CHOOSE i \in 1..Len(e) : e[i].key = k].val

MissingSessionVariableError == Err([error |-> "MissingSessionVariable"])

\* Every environment of at most MaxEnv variables.
Environments ==
    { e \in BSeq([key : EnvNames, val : EnvValues], MaxEnv) :
        \A i, j \in 1..Len(e) : i # j => e[i].key # e[j].key }

\* The two environments agree on the names and values of the prefixed
\* variables.
AgreeOnPrefixed(e1, e2) ==
    /\ PrefixedNames(e1) = PrefixedNames(e2)
    /\ \A k \in PrefixedNames(e1) : ValueOf(e1, k) = ValueOf(e2, k)

\* The same error kind, or a session with the same token.
SameOutcome(r1, r2) ==
    /\ r1.kind = r2.kind
    /\ r1.kind = "Ok" => r1.val.session = r2.val.session
    /\ r1.kind = "Err" => r1.err.error = r2.err.error

\* C2: env_session fails with MissingSessionVariableError when no prefixed
\* variable is set, returns a session with the value of the variable as its
\* token when exactly one is set, and fails with
\* MultipleSessionVariablesError listing exactly the prefixed names when two
\* or more are set.
C2_EnvSessionOutcome ==
    last = "env_session" =>
        LET names == PrefixedNames(env) IN
        /\ names = {} => result = MissingSessionVariableError
        /\ Cardinality(names) = 1 =>
              /\ result.kind = "Ok"
              /\ \A k \in names : result.val.session = ValueOf(env, k)
        /\ Cardinality(names) >= 2 =>
              /\ result.kind = "Err"
              /\ result.err.error = "MultipleSessionVariables"
              /\ Range(result.err.domains) = names

\* C10: env_session always returns a value, and its outcome is the same in
\* every environment that agrees with the current one on the prefixed
\* variables.
C10_EnvSessionDependsOnPrefixedOnly ==
    last = "env_session" =>
        /\ result.kind # "Panic"
        /\ \A e2 \in Environments :
              AgreeOnPrefixed(env, e2)
                 => SameOutcome(result, EnvSessionResult(ops[call.self], e2))

\* C3 as stated: env_account_session(s) succeeds iff OP_SESSION_<s> is set.
C3_NamedAsStated ==
    last = "env_account_session" =>
        (result.kind = "Ok" <=> SessionVarName(call.arg) \in EnvKeys(env))

\* C3 amended: env_account_session(s) succeeds iff a variable named exactly
\* OP_SESSION_<s> is set and its value is valid text, whatever other
\* prefixed variables are set; the session then has the handle's path and
\* that value as its token; an absent variable fails with
\* MissingSessionVariableError and a value that is not valid text with the
\* decode error.
C3_NamedOutcome ==
    last = "env_account_session" =>
        LET name == SessionVarName(call.arg) IN
        IF name \notin EnvKeys(env) THEN result = MissingSessionVariableError
        ELSE IF IsUtf8(ValueOf(env, name))
             THEN result = Ok([config |-> ops[call.self],
                               session |-> ValueOf(env, name)])
             ELSE result = Err([error |-> "SessionVar"])

\* The lookup of "a" succeeds while OP_SESSION_ab is set to another value,
\* and the lookup of "b" has no variable of its own.
C3_Witness ==
    /\ last = "env_account_session"
    /\ call.arg = <<"a">>
    /\ SessionVarName(<<"a", "b">>) \in EnvKeys(env)
    /\ env[1].key = SessionVarName(<<"a", "b">>)
    /\ result.kind = "Ok"
    /\ result.val.session = <<"t", "2">>
    /\ ValueOf(env, SessionVarName(<<"a", "b">>)) = <<"t", "1">>

(***************************************************************************)
(* Properties of the item model (checked under SpecItem).                  *)
(***************************************************************************)
Min(S) == CHOOSE x \in S : \A y \in S : x <= y

\* C4: password() returns the direct password for the password shape, and for
\* the field-list shape the value of the first field designated "password",
\* or nothing when no field is; it never fails.
C4_Password ==
    last = "password" =>
        LET d == item.details IN
        IF d.shape = "Password" THEN result = Some(d.password)
        ELSE LET hits == { i \in 1..Len(d.fields) :
                             /\ d.fields[i].designation.some
                             /\ d.fields[i].designation.v = "password" } IN
             IF hits = {} THEN result = None
             ELSE result = Some(d.fields[Min(hits)].value)

\* Two fields designated "password" with different values: the first wins.
C4_Witness ==
    /\ last = "password"
    /\ item.details.shape = "Login"
    /\ Len(item.details.fields) = 2
    /\ item.details.fields[1].designation = Some("password")
    /\ item.details.fields[2].designation = Some("password")
    /\ item.details.fields[1].value = "v2"
    /\ item.details.fields[2].value = "v1"
    /\ result = Some("v2")

\* The member is a list of well-formed fields.
WellFormedFields(f) ==
    /\ f.j = "array"
    /\ \A i \in 1..Len(f.a) :
          /\ f.a[i].j = "object"
          /\ Member(f.a[i], "designation").j \in {"absent", "null", "string"}
          /\ Member(f.a[i], "name").j = "string"
          /\ Member(f.a[i], "type").j = "string"
          /\ Member(f.a[i], "value").j = "string"

\* C5: a details payload with a string `password` member decodes as the
\* password shape, also when `fields` is present; otherwise a payload with a
\* well-formed `fields` list decodes as the field-list shape; decoding fails
\* only when neither matches; a decoded value has exactly one shape.
C5_DetailsDecode ==
    last = "deserialize_details" =>
        LET p == Member(wire, "password")
            f == Member(wire, "fields") IN
        /\ p.j = "string" =>
              result = Ok([shape |-> "Password", password |-> p.s])
        /\ (p.j # "string" /\ WellFormedFields(f)) =>
              /\ result.kind = "Ok"
              /\ result.val.shape = "Login"
              /\ DOMAIN result.val = {"shape", "fields"}
              /\ Len(result.val.fields) = Len(f.a)
        /\ result.kind = "Err" <=> (p.j # "string" /\ ~WellFormedFields(f))

C5_Witness ==
    /\ last = "deserialize_details"
    /\ Member(wire, "password") = JStr("secret")
    /\ WellFormedFields(Member(wire, "fields"))
    /\ Len(Member(wire, "fields").a) = 2
    /\ result = Ok([shape |-> "Password", password |-> "secret"])

\* C9: serializing an Item of either shape and deserializing the result
\* yields the Item.
C9_RoundTrip ==
    (last = "deserialize" /\ item # NoItem) => result = Ok(item)

C9_Witness ==
    /\ last = "deserialize"
    /\ item # NoItem
    /\ item.details.shape = "Login"
    /\ Len(item.details.fields) = 2
    /\ item.details.fields[1].designation = None
    /\ item.details.fields[2].designation = Some("password")
    /\ result = Ok(item)

====
